---- MODULE Spec2Model ----
(***************************************************************************)
(* State-machine model of the box-art customizer                           *)
(* (src/components/3d/BoxArtCustomizer.tsx): the current customization     *)
(* record, the in-memory list of saved customizations, the localStorage    *)
(* item that mirrors it, the FileReader reads in flight and the preview    *)
(* model's hover/scale state.  One action per event handler; a handler     *)
(* runs to completion before the next event is taken (React batches the    *)
(* state updates of one handler and re-renders before the next event).     *)
(*                                                                         *)
(* Numbers with two decimals (slider values, scale) are kept in            *)
(* hundredths: 1.0 is 100, 1.05 is 105, 0.5 is 50.                         *)
(*                                                                         *)
(* Spec is the customizer over a localStorage that accepts every setItem   *)
(* and that held a title-unique list (or nothing) at mount.  The controls  *)
(* of all four tab panels are enabled in every state: the Tabs component   *)
(* is not part of the sources, and enabling them all only adds behaviours. *)
(***************************************************************************)
EXTENDS Integers, Sequences, FiniteSets, Bags, TLC

VARIABLES
    initialData,          \* the initialData prop of the session
    customization,        \* useState<CustomizationData>
    savedCustomizations,  \* useState<CustomizationData[]>
    activeTab,            \* useState('viewer')
    storage,              \* localStorage item under STORAGE_KEY: <<>> (no item) or <<text>>
    pendingReads,         \* bag of FileReader reads started and not yet loaded
    hovered,              \* CustomizableBoxModel: useState(false)
    scale,                \* CustomizableBoxModel: groupRef.current.scale (hundredths)
    now,                  \* Date.now()
    handler,              \* the event handler that ran last
    alertMsg,             \* the text of the last alert() shown
    events,               \* number of events handled in the session
    uncaught,             \* names of the errors that escaped an event handler
    fatal,                \* an error was thrown while rendering: React unmounted the tree
    peerCustomization,    \* customization of a second browser tab of the same origin
    peerSaved,            \* savedCustomizations of that second tab
    autoRotateState,      \* BoxArtModel: the autoRotate state React holds
    autoRotate,           \* BoxArtModel: autoRotate as bound by the last render
    viewerHoveredState,   \* BoxArtModel: the hovered state React holds
    viewerHovered,        \* BoxArtModel: hovered as bound by the last render
    rotation,             \* BoxArtModel: groupRef.current.rotation (hundredths of a radian)
    viewerScale,          \* BoxArtModel: groupRef.current.scale (hundredths)
    textures,             \* BoxArt3DViewer: state of the three useTexture requests
    clicks,               \* BoxArtModel: clicks dispatched to the group
    shown,                \* BoxArt3DViewer: what the viewer displays
    viewerProps           \* BoxArt3DViewer: the props it was mounted with

failureVars == <<uncaught, fatal>>
peerVars == <<peerCustomization, peerSaved>>
viewerVars == <<autoRotateState, autoRotate, viewerHoveredState, viewerHovered,
                rotation, viewerScale, textures, clicks, shown, viewerProps>>

vars == <<initialData, customization, savedCustomizations, activeTab, storage,
          pendingReads, hovered, scale, now, handler, alertMsg, events,
          failureVars, peerVars, viewerVars>>

----------------------------------------------------------------------------
(* Bounds of the exploration *)

MaxEvents == 3     \* events handled in one session
MaxClock == 1      \* largest value of Date.now()
MaxPending == 2    \* FileReader reads in flight at once
MaxClicks == 2     \* clicks on the viewer model
MaxFrames == 2     \* frames rendered while the viewer model rotates

----------------------------------------------------------------------------
(* Program data *)

UNDEF == "<undefined>"

PlatformKeys == {"xbox", "playstation", "pc", "standard"}

PLATFORM_CONFIGS ==
    [p \in PlatformKeys |->
        CASE p = "xbox"        -> [baseColor |-> "#107C10", name |-> "Xbox"]
          [] p = "playstation" -> [baseColor |-> "#0070D1", name |-> "PlayStation"]
          [] p = "pc"          -> [baseColor |-> "#606060", name |-> "PC"]
          [] p = "standard"    -> [baseColor |-> "#707070", name |-> "Standard"]]

COLOR_PRESETS ==
    << [name |-> "Classic Green",    color |-> "#107C10"],
       [name |-> "PlayStation Blue", color |-> "#0070D1"],
       [name |-> "Nintendo Red",     color |-> "#E60012"],
       [name |-> "Gold",             color |-> "#FFD700"],
       [name |-> "Silver",           color |-> "#C0C0C0"],
       [name |-> "Black",            color |-> "#000000"],
       [name |-> "White",            color |-> "#FFFFFF"],
       [name |-> "Purple",           color |-> "#8B00FF"],
       [name |-> "Orange",           color |-> "#FF8C00"],
       [name |-> "Pink",             color |-> "#FF1493"] >>

STORAGE_KEY == "boxart_customizations"

DefaultTitle == "Custom Box Art"
DefaultFilter == 100      \* brightness/contrast/saturation 1.0
HoverScale == 105         \* scale.setScalar(1.05)
RestScale == 100          \* scale.setScalar(1)

Tabs == {"viewer", "images", "colors", "saved"}
ImageTypes == {"front", "back", "spine"}

----------------------------------------------------------------------------
(* Inputs the environment may supply *)

TitleInputs == {"A", "B"}
PickerInputs == {"#e60012"}
TextInputs == {"red"}
PresetChoices == {3}
BrightnessInputs == {150}
ContrastInputs == {50}
SaturationInputs == {0}
FileContents == {"data:image/png;base64,AAA", "data:image/png;base64,BBB"}

InitialDatas ==
    { [frontImageUrl |-> UNDEF, backImageUrl |-> UNDEF, spineImageUrl |-> UNDEF,
       platform |-> UNDEF, title |-> UNDEF],
      [frontImageUrl |-> "front.jpg", backImageUrl |-> UNDEF, spineImageUrl |-> UNDEF,
       platform |-> "xbox", title |-> UNDEF],
      [frontImageUrl |-> "front.jpg", backImageUrl |-> "back.jpg",
       spineImageUrl |-> "spine.jpg", platform |-> "playstation", title |-> "A"] }

----------------------------------------------------------------------------
(* Helpers *)

\* a || b on strings: undefined and '' are falsy
Or(a, b) == IF a = UNDEF \/ a = "" THEN b ELSE a

Range(s) == {s[i] : i \in DOMAIN s}

\* list.filter(c => c.title !== title)
FilterOutTitle(list, title) == SelectSeq(list, LAMBDA c : c.title # title)

\* `${type}Image`
ImageKey(type) ==
    CASE type = "front" -> "frontImage"
      [] type = "back"  -> "backImage"
      [] type = "spine" -> "spineImage"

\* type.charAt(0).toUpperCase() + type.slice(1)
Capitalize(type) ==
    CASE type = "front" -> "Front"
      [] type = "back"  -> "Back"
      [] type = "spine" -> "Spine"

\* JSON.stringify of one record: the values in key order
StringifyRecord(c) ==
    << c.frontImage, c.backImage, c.spineImage, c.frameColor, c.platform,
       c.title, c.brightness, c.contrast, c.saturation, c.lastModified >>

\* JSON.parse of one serialized record
ParseRecord(t) ==
    [frontImage |-> t[1], backImage |-> t[2], spineImage |-> t[3],
     frameColor |-> t[4], platform |-> t[5], title |-> t[6],
     brightness |-> t[7], contrast |-> t[8], saturation |-> t[9],
     lastModified |-> t[10]]

\* JSON.stringify(updated)
JSONstringify(list) ==
    [kind |-> "array", items |-> [i \in DOMAIN list |-> StringifyRecord(list[i])]]

\* JSON.parse(saved) of a text that parses: an array of records, or a value that
\* is not an array (kind "object" for '{...}', kind "null" for 'null')
JSONparse(text) ==
    IF text.kind = "array"
    THEN [i \in DOMAIN text.items |-> ParseRecord(text.items[i])]
    ELSE [kind |-> text.kind]

\* localStorage.getItem(STORAGE_KEY) followed by the parse of the load effect:
\* no item leaves the list empty, a text that does not parse is caught and logged
LoadEffect(store) ==
    IF store = <<>> THEN <<>>
    ELSE IF store[1].kind = "unparseable" THEN <<>>
    ELSE JSONparse(store[1])

\* a construction that leaves the back and spine images empty when absent
InitialCustomizationNoFallback(data, t) ==
    [frontImage   |-> Or(data.frontImageUrl, ""),
     backImage    |-> Or(data.backImageUrl, ""),
     spineImage   |-> Or(data.spineImageUrl, ""),
     frameColor   |-> PLATFORM_CONFIGS[Or(data.platform, "standard")].baseColor,
     platform     |-> Or(data.platform, "standard"),
     title        |-> Or(data.title, DefaultTitle),
     brightness   |-> DefaultFilter,
     contrast     |-> DefaultFilter,
     saturation   |-> DefaultFilter,
     lastModified |-> t]

\* the initial value of useState<CustomizationData>
InitialCustomization(data, t) ==
    [frontImage   |-> Or(data.frontImageUrl, ""),
     backImage    |-> Or(data.backImageUrl, Or(data.frontImageUrl, "")),
     spineImage   |-> Or(data.spineImageUrl, Or(data.frontImageUrl, "")),
     frameColor   |-> PLATFORM_CONFIGS[Or(data.platform, "standard")].baseColor,
     platform     |-> Or(data.platform, "standard"),
     title        |-> Or(data.title, DefaultTitle),
     brightness   |-> DefaultFilter,
     contrast     |-> DefaultFilter,
     saturation   |-> DefaultFilter,
     lastModified |-> t]

\* a record left in storage by an earlier session
StoredRecord ==
    [frontImage |-> "old.jpg", backImage |-> "old.jpg", spineImage |-> "old.jpg",
     frameColor |-> "#FFD700", platform |-> "pc", title |-> "A",
     brightness |-> 120, contrast |-> 100, saturation |-> 80, lastModified |-> 0]

InitialStorages == { <<>>, <<JSONstringify(<<StoredRecord>>)>> }

----------------------------------------------------------------------------
(* Construction of the parts a session of the customizer alone does not use *)

\* no error has been thrown
InitFailure ==
    /\ uncaught = {}
    /\ fatal = FALSE

\* the initial rotation prop of the viewer group: rotation={[-0.1, 0.3, 0]}
InitialRotation == [x |-> -10, y |-> 30, z |-> 0]

\* BoxArtModel at mount: useState(false), useState(true), no texture requested yet
InitViewer ==
    /\ autoRotateState = TRUE
    /\ autoRotate = TRUE
    /\ viewerHoveredState = FALSE
    /\ viewerHovered = FALSE
    /\ rotation = InitialRotation
    /\ viewerScale = RestScale
    /\ textures = [ty \in ImageTypes |-> IF ty = "front" THEN "pending" ELSE "idle"]
    /\ clicks = 0
    /\ shown = "placeholder"
    /\ viewerProps = [frontImageUrl |-> "front.jpg", backImageUrl |-> UNDEF,
                      spineImageUrl |-> UNDEF, platform |-> UNDEF]

\* no second tab is open
InitPeer ==
    /\ peerCustomization = InitialCustomization(initialData, 0)
    /\ peerSaved = <<>>

----------------------------------------------------------------------------
(* Construction: useState initial values and the load effect *)

Init ==
    /\ initialData \in InitialDatas
    /\ storage \in InitialStorages
    /\ now = 0
    /\ customization = InitialCustomization(initialData, now)
    /\ savedCustomizations = LoadEffect(storage)
    /\ activeTab = "viewer"
    /\ pendingReads = EmptyBag
    /\ hovered = FALSE
    /\ scale = RestScale
    /\ handler = "mount"
    /\ alertMsg = <<"", "">>
    /\ events = 0
    /\ InitFailure
    /\ InitPeer
    /\ InitViewer

\* every event handler: counts the event and records which handler ran
Event(name) ==
    /\ events < MaxEvents
    /\ events' = events + 1
    /\ handler' = name
    /\ UNCHANGED <<initialData, failureVars, peerVars, viewerVars>>

\* time passes
Tick ==
    /\ now < MaxClock
    /\ now' = now + 1
    /\ UNCHANGED <<initialData, customization, savedCustomizations, activeTab, storage,
                   pendingReads, hovered, scale, handler, alertMsg, events,
                   failureVars, peerVars, viewerVars>>

----------------------------------------------------------------------------
(* Settings view: title input and platform select *)

\* onChange of the title input: { ...prev, title: e.target.value }
TitleEdit(prev, value) == [prev EXCEPT !.title = value]

onTitleChange(value) ==
    /\ Event("title")
    /\ customization' = TitleEdit(customization, value)
    /\ UNCHANGED <<savedCustomizations, activeTab, storage, pendingReads,
                   hovered, scale, now, alertMsg>>

\* mutant: the platform is replaced and the frame colour kept
PlatformEditKeepColor(prev, value) == [prev EXCEPT !.platform = value]

\* onChange of the platform select: { ...prev, platform, frameColor: baseColor }
PlatformEdit(prev, value) ==
    [prev EXCEPT !.platform = value,
                 !.frameColor = PLATFORM_CONFIGS[value].baseColor]

onPlatformChange(value) ==
    /\ Event("platform")
    /\ customization' = PlatformEdit(customization, value)
    /\ UNCHANGED <<savedCustomizations, activeTab, storage, pendingReads,
                   hovered, scale, now, alertMsg>>

----------------------------------------------------------------------------
(* Colors view: colour picker, colour text input, presets, filter sliders *)

\* { ...prev, frameColor: value }
FrameColorEdit(prev, value) == [prev EXCEPT !.frameColor = value]

onColorPickerChange(value) ==
    /\ Event("colorPicker")
    /\ customization' = FrameColorEdit(customization, value)
    /\ UNCHANGED <<savedCustomizations, activeTab, storage, pendingReads,
                   hovered, scale, now, alertMsg>>

onColorTextChange(value) ==
    /\ Event("colorText")
    /\ customization' = FrameColorEdit(customization, value)
    /\ UNCHANGED <<savedCustomizations, activeTab, storage, pendingReads,
                   hovered, scale, now, alertMsg>>

onPresetClick(i) ==
    /\ Event("preset")
    /\ customization' = FrameColorEdit(customization, COLOR_PRESETS[i].color)
    /\ UNCHANGED <<savedCustomizations, activeTab, storage, pendingReads,
                   hovered, scale, now, alertMsg>>

\* onValueChange of the three sliders: { ...prev, <slider>: value }
SliderEdit(prev, slider, value) == [prev EXCEPT ![slider] = value]

onBrightnessChange(value) ==
    /\ Event("brightness")
    /\ customization' = SliderEdit(customization, "brightness", value)
    /\ UNCHANGED <<savedCustomizations, activeTab, storage, pendingReads,
                   hovered, scale, now, alertMsg>>

onContrastChange(value) ==
    /\ Event("contrast")
    /\ customization' = SliderEdit(customization, "contrast", value)
    /\ UNCHANGED <<savedCustomizations, activeTab, storage, pendingReads,
                   hovered, scale, now, alertMsg>>

onSaturationChange(value) ==
    /\ Event("saturation")
    /\ customization' = SliderEdit(customization, "saturation", value)
    /\ UNCHANGED <<savedCustomizations, activeTab, storage, pendingReads,
                   hovered, scale, now, alertMsg>>

----------------------------------------------------------------------------
(* Saved view: save, load, delete, reset *)

\* const newCustomization = { ...customization, lastModified: Date.now() }
NewCustomization(current, t) == [current EXCEPT !.lastModified = t]

\* mutant: the new record is appended without removing the entry of the same title
SaveUpdatedNoFilter(list, newCustomization) == Append(list, newCustomization)

\* mutant: an entry of the same title is kept and the new record dropped
SaveUpdatedKeepOld(list, newCustomization) ==
    IF \E i \in DOMAIN list : list[i].title = newCustomization.title
    THEN list
    ELSE Append(list, newCustomization)

\* mutant: the new record takes the place of the last entry, as if a rename moved it
SaveUpdatedMoveLast(list, newCustomization) ==
    IF list = <<>>
    THEN <<newCustomization>>
    ELSE [list EXCEPT ![Len(list)] = newCustomization]

\* [...savedCustomizations.filter(c => c.title !== newCustomization.title), newCustomization]
SaveUpdated(list, newCustomization) ==
    Append(FilterOutTitle(list, newCustomization.title), newCustomization)

\* mutant: save also stamps the current record with the save time
saveCustomizationStamping ==
    /\ Event("save")
    /\ LET updated == SaveUpdated(savedCustomizations, NewCustomization(customization, now))
       IN /\ savedCustomizations' = updated
          /\ storage' = <<JSONstringify(updated)>>
    /\ alertMsg' = <<"Saved", customization.title>>
    /\ customization' = NewCustomization(customization, now)
    /\ UNCHANGED <<activeTab, pendingReads, hovered, scale, now>>

saveCustomization ==
    /\ Event("save")
    /\ LET updated == SaveUpdated(savedCustomizations, NewCustomization(customization, now))
       IN /\ savedCustomizations' = updated
          /\ storage' = <<JSONstringify(updated)>>
    /\ alertMsg' = <<"Saved", customization.title>>
    /\ UNCHANGED <<customization, activeTab, pendingReads, hovered, scale, now>>

\* mutant: the loaded record is merged under the current front image
LoadedCustomizationKeepFront(prev, data) == [data EXCEPT !.frontImage = prev.frontImage]

\* setCustomization(data)
LoadedCustomization(prev, data) == data

\* mutant: load also moves the loaded card to the end of the list and persists it
loadCustomizationMoveToEnd(i) ==
    /\ i \in DOMAIN savedCustomizations
    /\ Event("load")
    /\ customization' = LoadedCustomization(customization, savedCustomizations[i])
    /\ alertMsg' = <<"Loaded", savedCustomizations[i].title>>
    /\ LET updated == Append(FilterOutTitle(savedCustomizations, savedCustomizations[i].title),
                             savedCustomizations[i])
       IN /\ savedCustomizations' = updated
          /\ storage' = <<[kind |-> "array",
                           items |-> [k \in DOMAIN updated |-> StringifyRecord(updated[k])]]>>
    /\ UNCHANGED <<activeTab, pendingReads, hovered, scale, now>>

\* the load button of the i-th card of the saved list
loadCustomization(i) ==
    /\ i \in DOMAIN savedCustomizations
    /\ Event("load")
    /\ customization' = LoadedCustomization(customization, savedCustomizations[i])
    /\ alertMsg' = <<"Loaded", savedCustomizations[i].title>>
    /\ UNCHANGED <<savedCustomizations, activeTab, storage, pendingReads,
                   hovered, scale, now>>

\* mutant: the last card is removed whatever its title
DeleteUpdatedDropLast(list, title) == SubSeq(list, 1, Len(list) - 1)

\* savedCustomizations.filter(c => c.title !== title)
DeleteUpdated(list, title) == FilterOutTitle(list, title)

\* the delete button of the i-th card of the saved list
deleteCustomization(i) ==
    /\ i \in DOMAIN savedCustomizations
    /\ Event("delete")
    /\ LET title == savedCustomizations[i].title
           updated == DeleteUpdated(savedCustomizations, title)
       IN /\ savedCustomizations' = updated
          /\ storage' = <<JSONstringify(updated)>>
          /\ alertMsg' = <<"Deleted", title>>
    /\ UNCHANGED <<customization, activeTab, pendingReads, hovered, scale, now>>

\* mutant: the frame colour of reset is the standard colour whatever the platform
ResetRecordStandardColor(data, t) ==
    [frontImage   |-> Or(data.frontImageUrl, ""),
     backImage    |-> Or(data.backImageUrl, Or(data.frontImageUrl, "")),
     spineImage   |-> Or(data.spineImageUrl, Or(data.frontImageUrl, "")),
     frameColor   |-> PLATFORM_CONFIGS["standard"].baseColor,
     platform     |-> Or(data.platform, "standard"),
     title        |-> Or(data.title, DefaultTitle),
     brightness   |-> DefaultFilter,
     contrast     |-> DefaultFilter,
     saturation   |-> DefaultFilter,
     lastModified |-> t]

\* mutant: reset does not fall back to the front image for back and spine
ResetRecordNoFallback(data, t) ==
    [frontImage   |-> Or(data.frontImageUrl, ""),
     backImage    |-> Or(data.backImageUrl, ""),
     spineImage   |-> Or(data.spineImageUrl, ""),
     frameColor   |-> PLATFORM_CONFIGS[Or(data.platform, "standard")].baseColor,
     platform     |-> Or(data.platform, "standard"),
     title        |-> Or(data.title, DefaultTitle),
     brightness   |-> DefaultFilter,
     contrast     |-> DefaultFilter,
     saturation   |-> DefaultFilter,
     lastModified |-> t]

\* the record resetCustomization passes to setCustomization
ResetRecord(data, t) ==
    [frontImage   |-> Or(data.frontImageUrl, ""),
     backImage    |-> Or(data.backImageUrl, Or(data.frontImageUrl, "")),
     spineImage   |-> Or(data.spineImageUrl, Or(data.frontImageUrl, "")),
     frameColor   |-> PLATFORM_CONFIGS[Or(data.platform, "standard")].baseColor,
     platform     |-> Or(data.platform, "standard"),
     title        |-> Or(data.title, DefaultTitle),
     brightness   |-> DefaultFilter,
     contrast     |-> DefaultFilter,
     saturation   |-> DefaultFilter,
     lastModified |-> t]

resetCustomization ==
    /\ Event("reset")
    /\ customization' = ResetRecord(initialData, now)
    /\ alertMsg' = <<"Reset to defaults", "">>
    /\ UNCHANGED <<savedCustomizations, activeTab, storage, pendingReads,
                   hovered, scale, now>>

----------------------------------------------------------------------------
(* Images view: file upload *)

\* handleImageUpload: reader.readAsDataURL(file) starts a read
handleImageUpload(file, type) ==
    /\ BagCardinality(pendingReads) < MaxPending
    /\ Event("upload")
    /\ pendingReads' = pendingReads (+) SetToBag({[type |-> type, result |-> file]})
    /\ UNCHANGED <<customization, savedCustomizations, activeTab, storage,
                   hovered, scale, now, alertMsg>>

\* mutant: the result is written to the front slot whatever the type
UploadEditFrontOnly(prev, type, result, t) ==
    [prev EXCEPT !.frontImage = result, !.lastModified = t]

\* { ...prev, [`${type}Image`]: result, lastModified: Date.now() }
UploadEdit(prev, type, result, t) ==
    [prev EXCEPT ![ImageKey(type)] = result, !.lastModified = t]

\* a completion that writes into the record as it was constructed
readerOnloadIntoInitial(read) ==
    /\ BagIn(read, pendingReads)
    /\ Event("onload")
    /\ pendingReads' = pendingReads (-) SetToBag({read})
    /\ customization' = UploadEdit(InitialCustomization(initialData, 0),
                                   read.type, read.result, now)
    /\ alertMsg' = <<Capitalize(read.type), " image uploaded">>
    /\ UNCHANGED <<savedCustomizations, activeTab, storage, hovered, scale, now>>

\* reader.onload of a read in flight
readerOnload(read) ==
    /\ BagIn(read, pendingReads)
    /\ Event("onload")
    /\ pendingReads' = pendingReads (-) SetToBag({read})
    /\ customization' = UploadEdit(customization, read.type, read.result, now)
    /\ alertMsg' = <<Capitalize(read.type), " image uploaded">>
    /\ UNCHANGED <<savedCustomizations, activeTab, storage, hovered, scale, now>>

----------------------------------------------------------------------------
(* Tabs, export button, preview model *)

\* mutant: switching the view also discards the unsaved edits
setActiveTabAndReset(tab) ==
    /\ Event("tab")
    /\ activeTab' = tab
    /\ customization' = ResetRecord(initialData, now)
    /\ UNCHANGED <<savedCustomizations, storage, pendingReads,
                   hovered, scale, now, alertMsg>>

\* <Tabs value={activeTab} onValueChange={setActiveTab}>
setActiveTab(tab) ==
    /\ Event("tab")
    /\ activeTab' = tab
    /\ UNCHANGED <<customization, savedCustomizations, storage, pendingReads,
                   hovered, scale, now, alertMsg>>

exportImage ==
    /\ Event("export")
    /\ alertMsg' = <<"Export feature coming soon!", "">>
    /\ UNCHANGED <<customization, savedCustomizations, activeTab, storage,
                   pendingReads, hovered, scale, now>>

\* onPointerOver / onPointerOut of the preview group
setHovered(value) ==
    /\ Event(IF value THEN "pointerOver" ELSE "pointerOut")
    /\ hovered' = value
    /\ UNCHANGED <<customization, savedCustomizations, activeTab, storage,
                   pendingReads, scale, now, alertMsg>>

\* the useFrame callback of CustomizableBoxModel
FrameScale(isHovered) == IF isHovered THEN HoverScale ELSE RestScale

useFrame ==
    /\ Event("frame")
    /\ scale' = FrameScale(hovered)
    /\ UNCHANGED <<customization, savedCustomizations, activeTab, storage,
                   pendingReads, hovered, now, alertMsg>>

----------------------------------------------------------------------------

Next ==
    \/ Tick
    \/ \E v \in TitleInputs : onTitleChange(v)
    \/ \E p \in PlatformKeys : onPlatformChange(p)
    \/ \E v \in PickerInputs : onColorPickerChange(v)
    \/ \E v \in TextInputs : onColorTextChange(v)
    \/ \E i \in PresetChoices : onPresetClick(i)
    \/ \E v \in BrightnessInputs : onBrightnessChange(v)
    \/ \E v \in ContrastInputs : onContrastChange(v)
    \/ \E v \in SaturationInputs : onSaturationChange(v)
    \/ saveCustomization
    \/ \E i \in DOMAIN savedCustomizations : loadCustomization(i)
    \/ \E i \in DOMAIN savedCustomizations : deleteCustomization(i)
    \/ resetCustomization
    \/ \E f \in FileContents, ty \in ImageTypes : handleImageUpload(f, ty)
    \/ \E r \in BagToSet(pendingReads) : readerOnload(r)
    \/ \E t \in Tabs : setActiveTab(t)
    \/ exportImage
    \/ \E b \in BOOLEAN : setHovered(b)
    \/ useFrame

Spec == Init /\ [][Next]_vars

----------------------------------------------------------------------------
(* Vocabulary of the properties *)

ContentFields ==
    {"title", "frontImage", "backImage", "spineImage", "frameColor", "platform",
     "brightness", "contrast", "saturation"}

SameContent(a, b) == \A f \in ContentFields : a[f] = b[f]

IndicesOfTitle(list, title) == {i \in DOMAIN list : list[i].title = title}

AllTitles == TitleInputs \cup {DefaultTitle}

\* the list held by the localStorage item
Persisted == LoadEffect(storage)

----------------------------------------------------------------------------
(* C1: save followed by load of the saved entry gives back the saved       *)
(* record.  A save step stores under the current title exactly one entry   *)
(* that agrees with the current record on the nine content fields and      *)
(* carries the save time; a load step of a card makes the current record   *)
(* equal to that stored entry in all ten fields (lastModified included,    *)
(* so it differs from the entry only after a later save) and leaves the    *)
(* list as it is.                                                          *)
SaveThenLoadRoundTrip ==
    [][ /\ saveCustomization =>
              \E i \in DOMAIN savedCustomizations' :
                  /\ IndicesOfTitle(savedCustomizations', customization.title) = {i}
                  /\ SameContent(savedCustomizations'[i], customization)
                  /\ savedCustomizations'[i].lastModified = now
        /\ \A i \in DOMAIN savedCustomizations :
              loadCustomization(i) =>
                  /\ customization' = savedCustomizations[i]
                  /\ savedCustomizations'[i] = customization'
                  /\ savedCustomizations' = savedCustomizations
      ]_vars

\* the session's record is saved at time 1 and loaded back from its card
SaveThenLoadWitness ==
    /\ handler = "load"
    /\ events = 2
    /\ alertMsg = <<"Loaded", DefaultTitle>>
    /\ \E i \in DOMAIN savedCustomizations : customization = savedCustomizations[i]
    /\ customization.title = DefaultTitle
    /\ customization.lastModified = 1

(* C2: saving a record whose title is already in the saved collection      *)
(* replaces that entry: the collection keeps its size, holds exactly one   *)
(* record of that title, that record is the one just saved, and the        *)
(* localStorage item holds the same list.                                  *)
SaveReplacesSameTitle ==
    [][ (saveCustomization /\ IndicesOfTitle(savedCustomizations, customization.title) # {}) =>
            /\ Len(savedCustomizations') = Len(savedCustomizations)
            /\ Cardinality(IndicesOfTitle(savedCustomizations', customization.title)) = 1
            /\ \A i \in IndicesOfTitle(savedCustomizations', customization.title) :
                   savedCustomizations'[i] = [customization EXCEPT !.lastModified = now]
            /\ LoadEffect(storage') = savedCustomizations'
      ]_vars

\* the stored record is loaded, its contrast edited and it is saved over itself
SaveReplacesWitness ==
    /\ handler = "save"
    /\ events = 3
    /\ customization.frontImage = "old.jpg"
    /\ customization.contrast \in ContrastInputs
    /\ Len(savedCustomizations) = 1
    /\ savedCustomizations[1].contrast \in ContrastInputs
    /\ Persisted = savedCustomizations

(* C3: delete(T) removes exactly the records titled T: afterwards neither  *)
(* the saved list nor the localStorage item holds a record titled T (no    *)
(* card is left from which T could be loaded), every record of another     *)
(* title is still there, unchanged and in the same order, and for a title  *)
(* that no record carries the filter returns the list unchanged.           *)
DeleteRemovesExactlyTitle ==
    [][ /\ \A i \in DOMAIN savedCustomizations :
              deleteCustomization(i) =>
                  LET title == savedCustomizations[i].title
                  IN /\ IndicesOfTitle(savedCustomizations', title) = {}
                     /\ IndicesOfTitle(LoadEffect(storage'), title) = {}
                     /\ LoadEffect(storage') = savedCustomizations'
                     /\ Len(savedCustomizations') =
                            Len(savedCustomizations)
                              - Cardinality(IndicesOfTitle(savedCustomizations, title))
                     /\ \A j \in DOMAIN savedCustomizations :
                            savedCustomizations[j].title # title =>
                                savedCustomizations[j] \in Range(savedCustomizations')
                     /\ \A j, k \in DOMAIN savedCustomizations' :
                            j < k =>
                                \E m, n \in DOMAIN savedCustomizations :
                                    /\ m < n
                                    /\ savedCustomizations[m] = savedCustomizations'[j]
                                    /\ savedCustomizations[n] = savedCustomizations'[k]
        /\ \A title \in AllTitles :
              IndicesOfTitle(savedCustomizations, title) = {} =>
                  DeleteUpdated(savedCustomizations, title) = savedCustomizations
      ]_vars

\* the session's record is saved next to the stored one, then the stored one is deleted
DeleteWitness ==
    /\ handler = "delete"
    /\ events = 2
    /\ alertMsg = <<"Deleted", "A">>
    /\ Len(savedCustomizations) = 1
    /\ savedCustomizations[1].title = DefaultTitle
    /\ Persisted = savedCustomizations

(* C4: no two records of the saved collection have the same title, in the  *)
(* in-memory list and in the list held by the localStorage item.           *)
TitlesUnique ==
    /\ \A i, j \in DOMAIN savedCustomizations :
           savedCustomizations[i].title = savedCustomizations[j].title => i = j
    /\ \A i, j \in DOMAIN Persisted :
           Persisted[i].title = Persisted[j].title => i = j

\* the session's record is saved, the stored record is loaded and saved over itself
TitlesUniqueWitness ==
    /\ handler = "save"
    /\ events = 3
    /\ Len(savedCustomizations) = 2
    /\ savedCustomizations[1].title = DefaultTitle
    /\ savedCustomizations[2].title = "A"
    /\ savedCustomizations[2].frontImage = "old.jpg"

(* C5: every single-field edit made through a UI control (title,          *)
(* platform, frame colour by picker, text or preset, brightness, contrast, *)
(* saturation) sets lastModified of the current record to the time of the  *)
(* edit.                                                                   *)
FieldEdit ==
    \/ \E v \in TitleInputs : onTitleChange(v)
    \/ \E p \in PlatformKeys : onPlatformChange(p)
    \/ \E v \in PickerInputs : onColorPickerChange(v)
    \/ \E v \in TextInputs : onColorTextChange(v)
    \/ \E i \in PresetChoices : onPresetClick(i)
    \/ \E v \in BrightnessInputs : onBrightnessChange(v)
    \/ \E v \in ContrastInputs : onContrastChange(v)
    \/ \E v \in SaturationInputs : onSaturationChange(v)

EditStampsLastModified ==
    [][FieldEdit => customization'.lastModified = now]_vars

(* C6 as stated: after reset() the frame colour is the base colour of the  *)
(* platform that was current when reset() was invoked, and brightness,     *)
(* contrast and saturation are 1.0.                                        *)
ResetColorOfCurrentPlatform ==
    [][resetCustomization =>
          /\ customization'.frameColor = PLATFORM_CONFIGS[customization.platform].baseColor
          /\ customization'.brightness = 100
          /\ customization'.contrast = 100
          /\ customization'.saturation = 100
      ]_vars

(* C6 as amended: after reset() the platform is the session's initial      *)
(* platform (initialData.platform, 'standard' when absent), the frame      *)
(* colour is the base colour of that platform, which is the platform of    *)
(* the record after the reset, and brightness, contrast and saturation     *)
(* are 1.0.                                                                *)
ResetColorOfInitialPlatform ==
    [][resetCustomization =>
          /\ customization'.platform =
                 (IF initialData.platform \in PlatformKeys
                  THEN initialData.platform ELSE "standard")
          /\ customization'.frameColor = PLATFORM_CONFIGS[customization'.platform].baseColor
          /\ customization'.brightness = 100
          /\ customization'.contrast = 100
          /\ customization'.saturation = 100
      ]_vars

\* another platform is selected and saved, then the record is reset
ResetColorWitness ==
    /\ handler = "reset"
    /\ events = 3
    /\ initialData.platform = "xbox"
    /\ Len(savedCustomizations) = 1
    /\ savedCustomizations[1].platform = "playstation"
    /\ savedCustomizations[1].title = DefaultTitle
    /\ customization.platform = "xbox"
    /\ customization.frameColor = "#107C10"

(* C7: reset() restores the whole current record to the session defaults:  *)
(* title, the three images, platform, frame colour and the three sliders   *)
(* equal the values the record had at construction from initialData.       *)
ResetRestoresConstruction ==
    [][resetCustomization =>
          SameContent(customization', InitialCustomization(initialData, 0))]_vars

\* a slider is edited and the record saved, then the record is reset
ResetRestoresWitness ==
    /\ handler = "reset"
    /\ events = 3
    /\ initialData.frontImageUrl = "front.jpg"
    /\ initialData.backImageUrl = UNDEF
    /\ Len(savedCustomizations) = 1
    /\ savedCustomizations[1].brightness \in BrightnessInputs
    /\ savedCustomizations[1].title = DefaultTitle
    /\ customization.brightness = 100
    /\ customization.backImage = "front.jpg"

(* C8: selecting a platform p in the settings view sets platform to p and  *)
(* the frame colour to p's base colour, whatever colour was set before     *)
(* ('playstation' gives '#0070D1'), and leaves title, images and sliders   *)
(* unchanged.                                                              *)
PlatformSelectSetsBaseColor ==
    [][\A p \in PlatformKeys :
          onPlatformChange(p) =>
              /\ customization'.platform = p
              /\ customization'.frameColor = PLATFORM_CONFIGS[p].baseColor
              /\ (p = "playstation" => customization'.frameColor = "#0070D1")
              /\ \A f \in ContentFields \ {"platform", "frameColor"} :
                     customization'[f] = customization[f]
      ]_vars

\* a preset colour is chosen and saved, then 'playstation' is selected
PlatformSelectWitness ==
    /\ handler = "platform"
    /\ events = 3
    /\ Len(savedCustomizations) = 1
    /\ savedCustomizations[1].title = DefaultTitle
    /\ savedCustomizations[1].frameColor = "#E60012"
    /\ savedCustomizations[1].platform = "xbox"
    /\ customization.platform = "playstation"
    /\ customization.frameColor = "#0070D1"

(* C9: a completed upload to slot s replaces only the image of slot s in   *)
(* the current record: the other two images, title, platform, frame colour *)
(* and the sliders are unchanged.                                          *)
UploadReplacesOnlySlot ==
    [][\A r \in BagToSet(pendingReads) :
          readerOnload(r) =>
              /\ customization'[ImageKey(r.type)] = r.result
              /\ \A f \in ContentFields \ {ImageKey(r.type)} :
                     customization'[f] = customization[f]
      ]_vars

\* an upload to the back slot has completed
UploadWitness ==
    /\ handler = "onload"
    /\ events = 2
    /\ alertMsg = <<"Back", " image uploaded">>
    /\ customization.backImage \in FileContents
    /\ customization.frontImage = "front.jpg"
    /\ customization.spineImage = "spine.jpg"

(* C10: the localStorage item and the in-memory saved list are written     *)
(* only by save() and delete(): every step that changes either of them is  *)
(* a save or a delete, so field edits, uploads, load, reset, tab switches, *)
(* hover events and frames leave both unchanged; and the per-frame         *)
(* callback never changes the current record.                              *)
OnlySaveAndDeleteWriteStore ==
    [][ /\ (storage' # storage \/ savedCustomizations' # savedCustomizations) =>
              \/ saveCustomization
              \/ \E i \in DOMAIN savedCustomizations : deleteCustomization(i)
        /\ (FieldEdit
              \/ (\E f \in FileContents, ty \in ImageTypes : handleImageUpload(f, ty))
              \/ (\E r \in BagToSet(pendingReads) : readerOnload(r))
              \/ (\E i \in DOMAIN savedCustomizations : loadCustomization(i))
              \/ resetCustomization
              \/ (\E t \in Tabs : setActiveTab(t))
              \/ (\E b \in BOOLEAN : setHovered(b))
              \/ useFrame) =>
              UNCHANGED <<storage, savedCustomizations>>
        /\ useFrame => customization' = customization
      ]_vars

\* after a save, the pointer enters the model and a frame is rendered
OnlySaveAndDeleteWitness ==
    /\ handler = "frame"
    /\ events = 3
    /\ scale = HoverScale
    /\ alertMsg[1] = "Saved"
    /\ Len(savedCustomizations) = 2
    /\ Persisted = savedCustomizations

----------------------------------------------------------------------------
(* localStorage that may reject a write: setItem throws (quota exceeded,   *)
(* storage disabled).  Neither handler has a try/catch, so the statements  *)
(* after setItem are not reached and the error leaves the handler; the     *)
(* setSavedCustomizations call made before it stays queued and is applied. *)

StorageError == "QuotaExceededError"

\* saveCustomization when localStorage.setItem throws
saveCustomizationRejected ==
    /\ events < MaxEvents
    /\ events' = events + 1
    /\ handler' = "save"
    /\ savedCustomizations' =
           SaveUpdated(savedCustomizations, NewCustomization(customization, now))
    /\ uncaught' = uncaught \cup {StorageError}
    /\ UNCHANGED <<initialData, customization, activeTab, storage, pendingReads,
                   hovered, scale, now, alertMsg, fatal, peerVars, viewerVars>>

\* deleteCustomization of the i-th card when localStorage.setItem throws
deleteCustomizationRejected(i) ==
    /\ i \in DOMAIN savedCustomizations
    /\ events < MaxEvents
    /\ events' = events + 1
    /\ handler' = "delete"
    /\ savedCustomizations' = DeleteUpdated(savedCustomizations, savedCustomizations[i].title)
    /\ uncaught' = uncaught \cup {StorageError}
    /\ UNCHANGED <<initialData, customization, activeTab, storage, pendingReads,
                   hovered, scale, now, alertMsg, fatal, peerVars, viewerVars>>

NextQuota ==
    \/ Next
    \/ saveCustomizationRejected
    \/ \E i \in DOMAIN savedCustomizations : deleteCustomizationRejected(i)

\* the customizer over a localStorage that may reject any write
SpecQuota == Init /\ [][NextQuota]_vars

----------------------------------------------------------------------------
(* C11: when the storage write of save() or delete() fails, the failure is *)
(* silent: no exception escapes the handler and the customizer keeps       *)
(* running with its current record unchanged.                              *)
StorageFailureSilent ==
    [][(saveCustomizationRejected
          \/ \E i \in DOMAIN savedCustomizations : deleteCustomizationRejected(i)) =>
            /\ uncaught' = uncaught
            /\ fatal' = FALSE
            /\ customization' = customization
      ]_vars

(* C12: every invocation of save() or delete() ends with its confirmation  *)
(* dialog being shown, also when the write to storage is rejected.         *)
ConfirmationAlwaysShown ==
    [][ /\ (saveCustomization \/ saveCustomizationRejected) =>
              alertMsg' = <<"Saved", customization.title>>
        /\ \A i \in DOMAIN savedCustomizations :
              (deleteCustomization(i) \/ deleteCustomizationRejected(i)) =>
                  alertMsg' = <<"Deleted", savedCustomizations[i].title>>
      ]_vars

----------------------------------------------------------------------------
(* A session started over a malformed localStorage item.  The component's  *)
(* render evaluates savedCustomizations.map(...) and .length, so a value   *)
(* that is not an array makes the render after the load effect throw; no   *)
(* error boundary is mounted above the customizer.                         *)

MalformedStorages ==
    { <<[kind |-> "unparseable", items |-> <<>>]>>,
      <<[kind |-> "object", items |-> <<>>]>>,
      <<[kind |-> "null", items |-> <<>>]>> }

\* savedCustomizations.map is not a function / cannot read properties of null
RenderThrows(store) ==
    /\ store # <<>>
    /\ store[1].kind \in {"object", "null"}

InitMalformed ==
    /\ initialData \in InitialDatas
    /\ storage \in MalformedStorages
    /\ now = 0
    /\ customization = InitialCustomization(initialData, now)
    /\ savedCustomizations = LoadEffect(storage)
    /\ activeTab = "viewer"
    /\ pendingReads = EmptyBag
    /\ hovered = FALSE
    /\ scale = RestScale
    /\ handler = "mount"
    /\ alertMsg = <<"", "">>
    /\ events = 0
    /\ uncaught = {}
    /\ fatal = RenderThrows(storage)
    /\ InitPeer
    /\ InitViewer

\* an unmounted tree handles no event
NextMalformed == fatal = FALSE /\ Next

SpecMalformed == InitMalformed /\ [][NextMalformed]_vars

(* C13: when the stored value is malformed at start-up, whether it cannot  *)
(* be parsed or parses to something that is not a list of records, the     *)
(* session behaves as if there were no saved records: the saved list is    *)
(* empty after mount and no fatal error occurs then or later.              *)
MalformedStorageTreatedAsEmpty ==
    /\ fatal = FALSE
    /\ uncaught = {}
    /\ (events = 0 => savedCustomizations = <<>>)

----------------------------------------------------------------------------
(* The viewer: BoxArt3DViewer and its BoxArtModel.  Pointer events reach   *)
(* the model through the canvas' own listeners, so a handler only records  *)
(* the new state and the component is rendered again in a later step; the  *)
(* frame callback and the handlers use the values bound by the last render.*)

\* what the viewer's handlers leave alone
customizerVars == <<initialData, customization, savedCustomizations, activeTab, storage,
                    pendingReads, hovered, scale, now, alertMsg, events, uncaught,
                    peerVars>>

RotationStep == 1     \* rotation.y += 0.01

ViewerPlatformKeys == {"xbox", "xbox360", "playstation", "pc", "standard"}

\* the viewer's PLATFORM_CONFIGS: sizes and material parameters in hundredths,
\* the colour as its sequence of characters
VIEWER_PLATFORM_CONFIGS ==
    [p \in ViewerPlatformKeys |->
        CASE p = "xbox" ->
               [width |-> 260, height |-> 350, depth |-> 20,
                color |-> <<"#", "1", "0", "7", "C", "1", "0">>,
                transparency |-> 15, metalness |-> 70, roughness |-> 30]
          [] p = "xbox360" ->
               [width |-> 260, height |-> 350, depth |-> 20,
                color |-> <<"#", "9", "A", "C", "D", "3", "2">>,
                transparency |-> 15, metalness |-> 70, roughness |-> 30]
          [] p = "playstation" ->
               [width |-> 275, height |-> 375, depth |-> 20,
                color |-> <<"#", "0", "0", "7", "0", "D", "1">>,
                transparency |-> 15, metalness |-> 70, roughness |-> 30]
          [] p = "pc" ->
               [width |-> 275, height |-> 375, depth |-> 22,
                color |-> <<"#", "6", "0", "6", "0", "6", "0">>,
                transparency |-> 20, metalness |-> 80, roughness |-> 20]
          [] p = "standard" ->
               [width |-> 260, height |-> 350, depth |-> 20,
                color |-> <<"#", "7", "0", "7", "0", "7", "0">>,
                transparency |-> 20, metalness |-> 60, roughness |-> 40]]

\* the props a page may mount the viewer with
ViewerPropsSet ==
    { [frontImageUrl |-> "front.jpg", backImageUrl |-> b, spineImageUrl |-> sp,
       platform |-> p] :
        b \in {UNDEF, "back.jpg"}, sp \in {UNDEF, "spine.jpg"},
        p \in ViewerPlatformKeys \cup {UNDEF} }

\* a lookup that flattens the box of the default platform
ViewerConfigFlat(props) ==
    IF props.platform = UNDEF
    THEN [VIEWER_PLATFORM_CONFIGS["standard"] EXCEPT !.depth = 0]
    ELSE VIEWER_PLATFORM_CONFIGS[props.platform]

\* platform = 'standard' in the parameter list; PLATFORM_CONFIGS[platform]
ViewerConfig(props) ==
    VIEWER_PLATFORM_CONFIGS[IF props.platform = UNDEF THEN "standard" ELSE props.platform]

\* the argument of the useTexture call of an image type
TextureUrl(props, ty) ==
    CASE ty = "front" -> props.frontImageUrl
      [] ty = "back"  -> Or(props.backImageUrl, props.frontImageUrl)
      [] ty = "spine" -> Or(props.spineImageUrl, props.frontImageUrl)

\* useTexture(frontImageUrl), then the back, then the spine
TextureOrder == <<"front", "back", "spine">>

\* a viewer that waits for the front texture only
AllResolvedFrontOnly(tex) == tex["front"] = "loaded"

AllResolved(tex) == \A ty \in ImageTypes : tex[ty] = "loaded"

\* the first useTexture call of a render that does not return a texture
FirstUnresolved(tex) ==
    TextureOrder[CHOOSE i \in DOMAIN TextureOrder :
                    /\ tex[TextureOrder[i]] # "loaded"
                    /\ \A j \in 1..(i - 1) : tex[TextureOrder[j]] = "loaded"]

\* useTexture keeps one request per url: a call for a url that an earlier call
\* has loaded returns its texture at once
AlreadyLoaded(tex, props, ty) ==
    \E other \in ImageTypes :
        /\ tex[other] = "loaded"
        /\ TextureUrl(props, other) = TextureUrl(props, ty)

\* the three useTexture calls of one render, from the i-th on: a call returns
\* when its texture is loaded, starts a request and suspends when the url is
\* new, and suspends or throws when its request is pending or has failed
RECURSIVE UseTextures(_, _, _)
UseTextures(tex, props, i) ==
    IF i > Len(TextureOrder) THEN tex
    ELSE LET ty == TextureOrder[i]
         IN IF tex[ty] = "loaded" THEN UseTextures(tex, props, i + 1)
            ELSE IF tex[ty] = "idle" /\ AlreadyLoaded(tex, props, ty)
            THEN UseTextures([tex EXCEPT ![ty] = "loaded"], props, i + 1)
            ELSE IF tex[ty] = "idle" THEN [tex EXCEPT ![ty] = "pending"]
            ELSE tex

\* Math.sin(elapsedTime * 0.4) * 0.5 and Math.sin(elapsedTime * 0.3) * 0.2 at
\* elapsedTime = 0, 3.93, 5.24 and 11.78 seconds
ClockSamples ==
    { [x |-> 0, z |-> 0], [x |-> 50, z |-> 18], [x |-> 43, z |-> 20],
      [x |-> -50, z |-> -8] }

ViewerStep(name) ==
    /\ fatal = FALSE
    /\ handler' = name
    /\ UNCHANGED <<customizerVars, viewerProps>>

\* the image request of a pending useTexture completes
textureLoaded(ty) ==
    /\ ViewerStep("textureLoaded")
    /\ textures[ty] = "pending"
    /\ textures' = [textures EXCEPT ![ty] = "loaded"]
    /\ UNCHANGED <<fatal, autoRotateState, autoRotate, viewerHoveredState, viewerHovered,
                   rotation, viewerScale, clicks, shown>>

\* the image request of a pending useTexture fails
textureFailed(ty) ==
    /\ ViewerStep("textureFailed")
    /\ textures[ty] = "pending"
    /\ textures' = [textures EXCEPT ![ty] = "failed"]
    /\ UNCHANGED <<fatal, autoRotateState, autoRotate, viewerHoveredState, viewerHovered,
                   rotation, viewerScale, clicks, shown>>

\* React renders BoxArtModel: after a texture request settled, or after a state
\* change.  useTexture suspends on a new request, throws the error of a failed
\* one, and returns the texture of a loaded one.
renderBoxArtModel ==
    /\ ViewerStep("render")
    /\ \A ty \in ImageTypes : textures[ty] # "pending"
    /\ LET used == UseTextures(textures, viewerProps, 1)
       IN IF AllResolved(used)
          THEN /\ \/ shown # "scene"
                  \/ autoRotate # autoRotateState
                  \/ viewerHovered # viewerHoveredState
               /\ shown' = "scene"
               /\ textures' = used
               /\ autoRotate' = autoRotateState
               /\ viewerHovered' = viewerHoveredState
               /\ UNCHANGED fatal
          ELSE IF used[FirstUnresolved(used)] = "failed"
          THEN /\ fatal' = TRUE
               /\ shown' = "nothing"
               /\ UNCHANGED <<textures, autoRotate, viewerHovered>>
          ELSE /\ textures' = used
               /\ UNCHANGED <<fatal, shown, autoRotate, viewerHovered>>
    /\ UNCHANGED <<autoRotateState, viewerHoveredState, rotation, viewerScale, clicks>>

\* onClick: setAutoRotate(!autoRotate)
toggleAutoRotate ==
    /\ ViewerStep("click")
    /\ shown = "scene"
    /\ clicks < MaxClicks
    /\ clicks' = clicks + 1
    /\ autoRotateState' = ~autoRotate
    /\ UNCHANGED <<fatal, autoRotate, viewerHoveredState, viewerHovered, rotation,
                   viewerScale, textures, shown>>

\* onPointerOver / onPointerOut: setHovered(value)
setViewerHovered(value) ==
    /\ ViewerStep("pointer")
    /\ shown = "scene"
    /\ viewerHoveredState # value
    /\ viewerHoveredState' = value
    /\ UNCHANGED <<fatal, autoRotateState, autoRotate, viewerHovered, rotation,
                   viewerScale, textures, clicks, shown>>

onPointerOver == setViewerHovered(TRUE)

onPointerOut == setViewerHovered(FALSE)

\* a frame callback that rotates whatever the flag
FrameRotationAlways(rot, auto, sample) ==
    [x |-> sample.x, y |-> rot.y + RotationStep, z |-> sample.z]

\* the rotation part of the frame callback
FrameRotation(rot, auto, sample) ==
    IF auto
    THEN [x |-> sample.x, y |-> rot.y + RotationStep, z |-> sample.z]
    ELSE rot

\* a frame callback whose hover effect is not suppressed while rotating
ViewerFrameScaleAlways(sc, h, auto) ==
    IF h THEN HoverScale ELSE RestScale

\* a frame callback that lets go of the scale when the pointer has left
ViewerFrameScaleReleasing(sc, h, auto) ==
    IF h /\ ~auto THEN HoverScale
    ELSE IF ~h THEN RestScale
    ELSE sc

\* the scale part of the frame callback
ViewerFrameScale(sc, h, auto) ==
    IF h /\ ~auto THEN HoverScale
    ELSE IF ~auto THEN RestScale
    ELSE sc

\* useFrame((state) => ...) of BoxArtModel
viewerUseFrame ==
    /\ ViewerStep("frame")
    /\ shown = "scene"
    /\ autoRotate => rotation.y < InitialRotation.y + MaxFrames * RotationStep
    /\ \E sample \in ClockSamples :
          rotation' = FrameRotation(rotation, autoRotate, sample)
    /\ viewerScale' = ViewerFrameScale(viewerScale, viewerHovered, autoRotate)
    /\ UNCHANGED <<fatal, autoRotateState, autoRotate, viewerHoveredState, viewerHovered,
                   textures, clicks, shown>>

NextViewer ==
    \/ \E ty \in ImageTypes : textureLoaded(ty)
    \/ \E ty \in ImageTypes : textureFailed(ty)
    \/ renderBoxArtModel
    \/ toggleAutoRotate
    \/ onPointerOver
    \/ onPointerOut
    \/ viewerUseFrame

\* a page mounts the viewer; no customizer is open
InitViewerSession ==
    /\ initialData = [frontImageUrl |-> UNDEF, backImageUrl |-> UNDEF,
                      spineImageUrl |-> UNDEF, platform |-> UNDEF, title |-> UNDEF]
    /\ storage = <<>>
    /\ now = 0
    /\ customization = InitialCustomization(initialData, now)
    /\ savedCustomizations = LoadEffect(storage)
    /\ activeTab = "viewer"
    /\ pendingReads = EmptyBag
    /\ hovered = FALSE
    /\ scale = RestScale
    /\ handler = "mount"
    /\ alertMsg = <<"", "">>
    /\ events = 0
    /\ InitFailure
    /\ InitPeer
    /\ autoRotateState = TRUE
    /\ autoRotate = TRUE
    /\ viewerHoveredState = FALSE
    /\ viewerHovered = FALSE
    /\ rotation = InitialRotation
    /\ viewerScale = RestScale
    /\ textures = [ty \in ImageTypes |-> IF ty = "front" THEN "pending" ELSE "idle"]
    /\ clicks = 0
    /\ shown = "placeholder"
    /\ viewerProps \in ViewerPropsSet

SpecViewer == InitViewerSession /\ [][NextViewer]_vars

(* C14: each click on the viewer model flips the auto-rotate flag exactly  *)
(* once: after n clicks the flag equals its initial value TRUE negated n   *)
(* times, whatever the interleaving of clicks, frames and renders.         *)
ClickFlipsFlagOnce ==
    autoRotateState = (clicks % 2 = 0)

(* C15: on every frame rendered while the auto-rotate flag bound by the    *)
(* last render is true the Y rotation strictly increases; on every frame   *)
(* rendered while it is false the rotation (X, Y and Z) stays as it was.   *)
RotationFollowsFlag ==
    [][viewerUseFrame =>
          IF autoRotate
          THEN rotation'.y > rotation.y
          ELSE rotation' = rotation]_vars

\* a frame was rendered with the flag off, after frames that rotated the model
RotationFollowsFlagWitness ==
    /\ handler = "frame"
    /\ autoRotate = FALSE
    /\ rotation.y > InitialRotation.y

(* C16: while auto-rotation is off the scale after each frame is 1.05 if   *)
(* the pointer is over the model and 1.0 otherwise; while auto-rotation is *)
(* on, pointer-over and pointer-out events and the frames after them leave *)
(* the scale as it was.                                                    *)
HoverScaleOnlyWhenStill ==
    [][/\ (viewerUseFrame /\ ~autoRotate) =>
              viewerScale' = IF viewerHovered THEN HoverScale ELSE RestScale
       /\ (viewerUseFrame /\ autoRotate) => viewerScale' = viewerScale
       /\ (onPointerOver \/ onPointerOut) => viewerScale' = viewerScale]_vars

\* a frame scaled the hovered model up while auto-rotation was off
HoverScaleWitness ==
    /\ handler = "frame"
    /\ autoRotate = FALSE
    /\ viewerHovered = TRUE
    /\ viewerScale = HoverScale

(* C19: from mount until all three textures have loaded the viewer shows   *)
(* its loading placeholder and not the scene; a pending request leaves     *)
(* that state only by settling (no timeout, no retry), so while a request  *)
(* stays pending the placeholder stays.  (A failed request is the case of  *)
(* C20.)                                                                   *)
PlaceholderUntilResolved ==
    /\ [](/\ shown = "scene" => \A ty \in ImageTypes : textures[ty] = "loaded"
          /\ (\E ty \in ImageTypes : textures[ty] = "pending") =>
                 shown = "placeholder"
          /\ (/\ \A ty \in ImageTypes : textures[ty] # "failed"
              /\ \E ty \in ImageTypes : textures[ty] # "loaded") =>
                 shown = "placeholder")
    /\ [][\A ty \in ImageTypes :
             /\ (textures[ty] = "pending" /\ textures'[ty] # "pending") =>
                    (textureLoaded(ty) \/ textureFailed(ty))
             /\ textures[ty] = "failed" => textures'[ty] = "failed"]_vars

\* two textures have loaded and the third request is in flight
PlaceholderWitness ==
    /\ textures["front"] = "loaded"
    /\ textures["back"] = "loaded"
    /\ textures["spine"] = "pending"
    /\ shown = "placeholder"

(* C20: when the load of one of the three textures fails the scene is      *)
(* still rendered (with that face flat-coloured): a texture failure never  *)
(* crashes or removes the scene.                                           *)
TextureFailureKeepsScene ==
    (\E ty \in ImageTypes : textures[ty] = "failed") =>
        /\ fatal = FALSE
        /\ shown # "nothing"

(* C17: switching between the four views of the customizer changes only    *)
(* which view is shown: the current record, the in-memory saved list and   *)
(* the persisted collection stay as they were, and at any time exactly one *)
(* of the four views is the active one.                                    *)
TabSwitchOnlyChangesView ==
    /\ [](activeTab \in Tabs /\ Cardinality(Tabs) = 4)
    /\ [][\A t \in Tabs :
             setActiveTab(t) =>
                 /\ activeTab' = t
                 /\ UNCHANGED <<customization, savedCustomizations, storage>>]_vars

\* the saved view was opened over an edited record and a non-empty list
TabSwitchWitness ==
    /\ handler = "tab"
    /\ activeTab = "saved"
    /\ Len(savedCustomizations) > 0
    /\ customization.brightness # DefaultFilter

----------------------------------------------------------------------------
(* Two browser tabs of the same origin, each with its own customizer over  *)
(* the one localStorage item.  Each tab reads the item once, in its load   *)
(* effect; the component registers no listener for storage events.         *)

InitTabs ==
    /\ initialData \in InitialDatas
    /\ storage \in InitialStorages
    /\ now = 0
    /\ customization = InitialCustomization(initialData, now)
    /\ savedCustomizations = LoadEffect(storage)
    /\ peerCustomization = InitialCustomization(initialData, now)
    /\ peerSaved = LoadEffect(storage)
    /\ activeTab = "viewer"
    /\ pendingReads = EmptyBag
    /\ hovered = FALSE
    /\ scale = RestScale
    /\ handler = "mount"
    /\ alertMsg = <<"", "">>
    /\ events = 0
    /\ InitFailure
    /\ InitViewer

\* an event handled by the second tab
PeerEvent(name) ==
    /\ events < MaxEvents
    /\ events' = events + 1
    /\ handler' = name
    /\ UNCHANGED <<initialData, customization, savedCustomizations, activeTab,
                   pendingReads, hovered, scale, now, alertMsg, failureVars, viewerVars>>

\* onChange of the title input in the second tab
peerTitleChange(value) ==
    /\ PeerEvent("peerTitle")
    /\ peerCustomization' = TitleEdit(peerCustomization, value)
    /\ UNCHANGED <<peerSaved, storage>>

\* mutant: the second tab merges its list into the stored one
peerSaveMerging ==
    /\ PeerEvent("peerSave")
    /\ LET updated == SaveUpdated(peerSaved, NewCustomization(peerCustomization, now))
       IN /\ peerSaved' = updated
          /\ storage' = <<JSONstringify(SaveUpdated(Persisted,
                                        NewCustomization(peerCustomization, now)))>>
    /\ UNCHANGED peerCustomization

\* saveCustomization in the second tab
peerSave ==
    /\ PeerEvent("peerSave")
    /\ LET updated == SaveUpdated(peerSaved, NewCustomization(peerCustomization, now))
       IN /\ peerSaved' = updated
          /\ storage' = <<JSONstringify(updated)>>
    /\ UNCHANGED peerCustomization

NextTabs ==
    \/ Tick
    \/ \E v \in TitleInputs : onTitleChange(v)
    \/ saveCustomization
    \/ \E i \in DOMAIN savedCustomizations : deleteCustomization(i)
    \/ \E v \in TitleInputs : peerTitleChange(v)
    \/ peerSave

SpecTabs == InitTabs /\ [][NextTabs]_vars

\* the titles of the records of a list
TitlesOf(list) == {list[i].title : i \in DOMAIN list}

(* C18: when two tabs share the storage key and both save, the later write *)
(* wins with no merge: after a save the persisted collection is exactly    *)
(* the list the saving tab built from its own in-memory list, so a record  *)
(* the other tab saved that is not in that list is absent.                 *)
LaterWriteWins ==
    [][/\ peerSave =>
             /\ Persisted' = SaveUpdated(peerSaved, NewCustomization(peerCustomization, now))
             /\ \A t \in TitlesOf(Persisted) :
                    t \notin TitlesOf(peerSaved) \cup {peerCustomization.title} =>
                        t \notin TitlesOf(Persisted')
       /\ saveCustomization =>
             /\ Persisted' = SaveUpdated(savedCustomizations,
                                         NewCustomization(customization, now))
             /\ \A t \in TitlesOf(Persisted) :
                    t \notin TitlesOf(savedCustomizations) \cup {customization.title} =>
                        t \notin TitlesOf(Persisted')]_vars

\* the first tab saved a record, then the second tab saved another one: the
\* record of the first tab is in its list and no longer in the store
LaterWriteWinsWitness ==
    /\ handler = "peerSave"
    /\ alertMsg[1] = "Saved"
    /\ alertMsg[2] \in TitlesOf(savedCustomizations)
    /\ alertMsg[2] \notin TitlesOf(Persisted)

----------------------------------------------------------------------------
(* What the two box models render: the six materials of the mesh, slot k   *)
(* being attach="material-k".  A texture is identified by the url it was   *)
(* loaded from.                                                            *)

MaterialSlots == 0..5

ColorMaterial(c) == [kind |-> "color", value |-> c]

MapMaterial(url) == [kind |-> "map", value |-> url]

\* the <mesh> of BoxArtModel
ViewerMaterials(props) ==
    [slot \in MaterialSlots |->
        CASE slot = 1 -> MapMaterial(TextureUrl(props, "spine"))
          [] slot = 4 -> MapMaterial(TextureUrl(props, "front"))
          [] slot = 5 -> MapMaterial(TextureUrl(props, "back"))
          [] OTHER    -> ColorMaterial(ViewerConfig(props).color)]

\* a preview whose two lateral faces both carry the spine texture
PreviewMaterialsBothSides(c) ==
    [slot \in MaterialSlots |->
        CASE slot \in {0, 1} -> MapMaterial(c.spineImage)
          [] slot = 4 -> MapMaterial(c.frontImage)
          [] slot = 5 -> MapMaterial(c.backImage)
          [] OTHER    -> ColorMaterial(c.frameColor)]

\* the <mesh> of CustomizableBoxModel, given the props built from the record
PreviewMaterials(c) ==
    [slot \in MaterialSlots |->
        CASE slot = 1 -> MapMaterial(c.spineImage)
          [] slot = 4 -> MapMaterial(c.frontImage)
          [] slot = 5 -> MapMaterial(c.backImage)
          [] OTHER    -> ColorMaterial(c.frameColor)]

\* the face assignment of the viewer model, for every props value
ViewerFacesFixed ==
    \A props \in ViewerPropsSet :
        LET m == ViewerMaterials(props)
        IN /\ m[1] = [kind |-> "map", value |-> TextureUrl(props, "spine")]
           /\ m[4] = [kind |-> "map", value |-> TextureUrl(props, "front")]
           /\ m[5] = [kind |-> "map", value |-> TextureUrl(props, "back")]
           /\ \A k \in {0, 2, 3} :
                 m[k] = [kind |-> "color", value |-> ViewerConfig(props).color]

(* C21: the face assignment is the same for every input, in the preview   *)
(* of the customizer and in the viewer: slot 1 carries the spine texture,  *)
(* slots 0, 2 and 3 the flat frame (platform) colour, slot 4 the front     *)
(* texture and slot 5 the back texture.                                    *)
FaceAssignmentFixed ==
    /\ LET m == PreviewMaterials(customization)
       IN /\ m[1] = [kind |-> "map", value |-> customization.spineImage]
          /\ m[4] = [kind |-> "map", value |-> customization.frontImage]
          /\ m[5] = [kind |-> "map", value |-> customization.backImage]
          /\ \A k \in {0, 2, 3} :
                m[k] = [kind |-> "color", value |-> customization.frameColor]
    /\ ViewerFacesFixed

\* the preview shows an uploaded spine image next to an edited frame colour
FaceAssignmentWitness ==
    /\ customization.spineImage \in FileContents
    /\ customization.frameColor \in PickerInputs
    /\ PreviewMaterials(customization)[1].value = customization.spineImage
    /\ PreviewMaterials(customization)[0].value = customization.frameColor

----------------------------------------------------------------------------
(* The filter sliders.  Slider renders <input type="range" min max step>:  *)
(* wherever the thumb is dragged, the value the element reports lies on    *)
(* its track, and handleSliderChange passes parseFloat of it on.           *)

FilterMin == 50        \* min={0.5} of the brightness and contrast sliders
FilterMax == 200       \* max={2} of the three sliders
SaturationMin == 0     \* min={0} of the saturation slider

\* where the pointer is released, in hundredths: left of the track, on it, right of it
SliderPositions == {-100, 137, 350}

\* a slider whose element reports the pointer position as it is
RangeInputUnclamped(pos, min, max) == pos

\* e.target.value of the range input, parsed
RangeInput(pos, min, max) ==
    IF pos < min THEN min
    ELSE IF pos > max THEN max
    ELSE pos

NextSliders ==
    \/ Tick
    \/ \E pos \in SliderPositions :
          onBrightnessChange(RangeInput(pos, FilterMin, FilterMax))
    \/ \E pos \in SliderPositions :
          onContrastChange(RangeInput(pos, FilterMin, FilterMax))
    \/ \E pos \in SliderPositions :
          onSaturationChange(RangeInput(pos, SaturationMin, FilterMax))
    \/ saveCustomization
    \/ \E i \in DOMAIN savedCustomizations : loadCustomization(i)
    \/ resetCustomization

SpecSliders == Init /\ [][NextSliders]_vars

\* the three filter values of a record lie on the tracks of their sliders
FiltersOnTrack(c) ==
    /\ c.brightness \in FilterMin..FilterMax
    /\ c.contrast \in FilterMin..FilterMax
    /\ c.saturation \in SaturationMin..FilterMax

(* C22: in every state reached from the constructed defaults by slider     *)
(* edits, save, load and reset, brightness and contrast of the current     *)
(* record and of every saved and every persisted record lie in [0.5, 2.0]  *)
(* and saturation in [0, 2.0], on the 0.01 grid (an integer number of      *)
(* hundredths).                                                            *)
FiltersStayInRange ==
    /\ FiltersOnTrack(customization)
    /\ \A i \in DOMAIN savedCustomizations : FiltersOnTrack(savedCustomizations[i])
    /\ \A i \in DOMAIN Persisted : FiltersOnTrack(Persisted[i])

\* a record was saved with the sliders released beyond both ends of their tracks
FiltersStayInRangeWitness ==
    \E i \in DOMAIN savedCustomizations :
        /\ savedCustomizations[i].brightness = FilterMax
        /\ savedCustomizations[i].saturation = SaturationMin
        /\ handler = "save"

----------------------------------------------------------------------------
(* The preview scene of the customizer: the materials with their textures  *)
(* as the filter effect leaves them, the rotation prop of the group and    *)
(* the scale the frame callback sets.                                      *)

\* rotation={[-0.2, 0.4, 0]} of the preview group
PreviewRotation == [x |-> -20, y |-> 40, z |-> 0]

\* a filter effect that stores the slider values in the texture
FilterEffectApplied(url, brightness, contrast, saturation) ==
    [url |-> url, needsUpdate |-> TRUE,
     filter |-> <<brightness, contrast, saturation>>]

\* the useEffect over [brightness, contrast, saturation, textures]: the texture
\* of a url after texture.needsUpdate = true
FilterEffect(url, brightness, contrast, saturation) ==
    [url |-> url, needsUpdate |-> TRUE]

\* the texture a map material of the preview holds: the filter effect has run
FilteredMaterial(m, c) ==
    IF m.kind = "map"
    THEN [kind |-> "map",
          value |-> FilterEffect(m.value, c.brightness, c.contrast, c.saturation)]
    ELSE m

\* what CustomizableBoxModel puts on screen for a record
PreviewScene(c, isHovered) ==
    LET shownMaterials == PreviewMaterials(c)
    IN [materials |-> [slot \in MaterialSlots |-> FilteredMaterial(shownMaterials[slot], c)],
        rotation |-> PreviewRotation,
        scale |-> FrameScale(isHovered)]

\* the record with its three filter values put back to 1.0
Unfiltered(c) ==
    [c EXCEPT !.brightness = DefaultFilter, !.contrast = DefaultFilter,
              !.saturation = DefaultFilter]

----------------------------------------------------------------------------
(* The viewer's platform table *)

HexDigits ==
    {"0", "1", "2", "3", "4", "5", "6", "7", "8", "9",
     "A", "B", "C", "D", "E", "F", "a", "b", "c", "d", "e", "f"}

\* '#RRGGBB'
IsHexColor(chars) ==
    /\ Len(chars) = 7
    /\ chars[1] = "#"
    /\ \A i \in 2..7 : chars[i] \in HexDigits

\* a unit interval in hundredths
UnitInterval == 0..100

ConfigInRange(config) ==
    /\ config.width > 0
    /\ config.height > 0
    /\ config.depth > 0
    /\ IsHexColor(config.color)
    /\ config.metalness \in UnitInterval
    /\ config.roughness \in UnitInterval
    /\ config.transparency \in UnitInterval

(* C24: for every platform key of the viewer's table (xbox, xbox360,       *)
(* playstation, pc, standard) the config has width, height and depth above *)
(* zero, a '#RRGGBB' colour, and metalness, roughness and transparency in  *)
(* [0, 1]; so has the config the mounted viewer looks up for its props.    *)
PlatformTableInRange ==
    /\ ViewerPlatformKeys = {"xbox", "xbox360", "playstation", "pc", "standard"}
    /\ \A p \in ViewerPlatformKeys : ConfigInRange(VIEWER_PLATFORM_CONFIGS[p])
    /\ ConfigInRange(ViewerConfig(viewerProps))

\* the viewer shows its scene for the platform left to its default
PlatformTableWitness ==
    /\ shown = "scene"
    /\ viewerProps.platform = UNDEF
    /\ ViewerConfig(viewerProps) = VIEWER_PLATFORM_CONFIGS["standard"]

----------------------------------------------------------------------------
(* Construction *)

\* a value was supplied: neither undefined nor the empty string
Present(v) == v # UNDEF /\ v # ""

\* the viewer requests the front image for an absent back or spine
ViewerImageFallback ==
    \A props \in ViewerPropsSet :
        /\ TextureUrl(props, "back") =
              IF Present(props.backImageUrl) THEN props.backImageUrl
              ELSE props.frontImageUrl
        /\ TextureUrl(props, "spine") =
              IF Present(props.spineImageUrl) THEN props.spineImageUrl
              ELSE props.frontImageUrl

(* C25: at construction the current record is derived from the optional    *)
(* initial data: backImage and spineImage are the supplied value when      *)
(* present and the front image otherwise, platform is the supplied one or  *)
(* 'standard', frameColor is the base colour of that platform (#107C10 for *)
(* xbox) and the three filters are 1.0; the viewer too uses the front      *)
(* image for an absent back or spine.                                      *)
ConstructionDefaults ==
    /\ handler = "mount" =>
          /\ customization.backImage =
                IF Present(initialData.backImageUrl) THEN initialData.backImageUrl
                ELSE customization.frontImage
          /\ customization.spineImage =
                IF Present(initialData.spineImageUrl) THEN initialData.spineImageUrl
                ELSE customization.frontImage
          /\ customization.frontImage =
                IF Present(initialData.frontImageUrl) THEN initialData.frontImageUrl ELSE ""
          /\ customization.platform =
                IF Present(initialData.platform) THEN initialData.platform ELSE "standard"
          /\ customization.frameColor = PLATFORM_CONFIGS[customization.platform].baseColor
          /\ customization.platform = "xbox" => customization.frameColor = "#107C10"
          /\ customization.brightness = DefaultFilter
          /\ customization.contrast = DefaultFilter
          /\ customization.saturation = DefaultFilter
    /\ ViewerImageFallback

\* a customizer just constructed for an xbox asset set that has a front image only
ConstructionDefaultsWitness ==
    /\ handler = "mount"
    /\ initialData.platform = "xbox"
    /\ initialData.backImageUrl = UNDEF
    /\ customization.backImage = "front.jpg"
    /\ customization.frameColor = "#107C10"

----------------------------------------------------------------------------
(* The saved view against the store *)

(* C26: after every save and every delete, one whose storage write is      *)
(* rejected included, the in-memory saved list shown in the Saved view     *)
(* equals the list held in persistent storage.                             *)
SavedViewMatchesStore ==
    [][(\/ saveCustomization
        \/ saveCustomizationRejected
        \/ \E i \in DOMAIN savedCustomizations :
              deleteCustomization(i) \/ deleteCustomizationRejected(i)) =>
           savedCustomizations' = Persisted']_vars

----------------------------------------------------------------------------
(* Uploads in flight *)

----------------------------------------------------------------------------
(* Renaming *)

(* C28: the title is the only key of a saved record, so a rename is a      *)
(* copy: a save under a title leaves every record of another title (the    *)
(* one the current record was loaded from included) unchanged in the list  *)
(* and in the store, adds or replaces the record of the saved title, and   *)
(* makes the collection one longer when that title was not present.        *)
RenameIsCopy ==
    [][saveCustomization =>
          /\ \A i \in DOMAIN savedCustomizations :
                savedCustomizations[i].title # customization.title =>
                    /\ \E j \in DOMAIN savedCustomizations' :
                          savedCustomizations'[j] = savedCustomizations[i]
                    /\ \E j \in DOMAIN Persisted' :
                          Persisted'[j] = savedCustomizations[i]
          /\ Cardinality({j \in DOMAIN savedCustomizations' :
                            savedCustomizations'[j].title = customization.title}) = 1
          /\ Len(savedCustomizations') =
                IF customization.title \in TitlesOf(savedCustomizations)
                THEN Len(savedCustomizations)
                ELSE Len(savedCustomizations) + 1]_vars

\* the stored record was loaded, renamed and saved: the collection holds both
RenameIsCopyWitness ==
    /\ handler = "save"
    /\ Len(savedCustomizations) = 2
    /\ savedCustomizations[1] = StoredRecord
    /\ savedCustomizations[2].title # StoredRecord.title
    /\ savedCustomizations[2].frameColor = StoredRecord.frameColor
    /\ savedCustomizations[2].frontImage = StoredRecord.frontImage

----------------------------------------------------------------------------
(* The current record across save and delete *)

(* C29: save and delete leave the current record unchanged in every field, *)
(* lastModified included; only the stored copy carries the time of the     *)
(* save.                                                                   *)
SaveAndDeleteKeepCurrent ==
    [][/\ saveCustomization =>
             /\ customization' = customization
             /\ \A j \in DOMAIN savedCustomizations' :
                   savedCustomizations'[j].title = customization.title =>
                       savedCustomizations'[j].lastModified = now
       /\ \A i \in DOMAIN savedCustomizations :
             deleteCustomization(i) => customization' = customization]_vars

\* a record was saved later than it was last modified
SaveKeepsCurrentWitness ==
    /\ handler = "save"
    /\ \E j \in DOMAIN savedCustomizations :
          /\ savedCustomizations[j].title = customization.title
          /\ savedCustomizations[j].lastModified > customization.lastModified

----------------------------------------------------------------------------
(* The scale of the viewer model during auto-rotation *)

(* C30: the frame callback writes the scale only while auto-rotation is    *)
(* off, so no step taken while auto-rotation is on, and no step that turns *)
(* it on, changes the scale: the scale of an auto-rotation period is the   *)
(* one the last frame without auto-rotation left, 1.05 when the model was  *)
(* hovered then, even after the pointer has left.                          *)
ScaleFrozenWhileRotating ==
    [][autoRotate' => viewerScale' = viewerScale]_vars

\* the model rotates at scale 1.05 and a frame was rendered after the pointer left
ScaleFrozenWitness ==
    /\ handler = "frame"
    /\ autoRotate = TRUE
    /\ viewerHovered = FALSE
    /\ viewerScale = HoverScale
    /\ clicks = 2

====
